---- MODULE Spec2Model ----
(***************************************************************************)
(* A model of nltk/classify/megam.py: the interface to the external megam *)
(* maxent optimizer.                                                       *)
(*                                                                         *)
(*   write_megam_file     serialises training pairs to megam's input file  *)
(*   parse_megam_weights  parses megam's stdout into a weight vector       *)
(*   config_megam         resolves and caches the path of the binary       *)
(*   call_megam           runs the binary as a child process               *)
(*                                                                         *)
(* A raised exception is modelled by the field or variable "raised"        *)
(* holding the exception's name instead of "none".  A stream is the        *)
(* sequence of the strings passed to stream.write, in order.               *)
(***************************************************************************)
EXTENDS Integers, Sequences, FiniteSets, TLC

VARIABLES
    \* ---- write_megam_file: its arguments, the sink and the outcome
    train_toks,     \* list of (featureset, label) pairs
    encoding,       \* [labels, has_cost, cost, encode]
    bernoulli,
    explicit,
    stream,         \* the strings written to the stream so far
    blocks,         \* the _write_megam_features calls made: [pair, label, at]
    w_raised,
    w_pc,
    \* ---- parse_megam_weights: its arguments and the outcome
    s,              \* megam's stdout, as a sequence of tokens and newlines
    features_count,
    p_explicit,
    numpy,          \* "numpy" when the import succeeded, "None" otherwise
    returned,       \* <<weights>> once the array is returned, <<>> before and
                    \* when the call raises
    p_raised,
    p_pc,
    \* ---- config_megam / call_megam
    _megam_bin,     \* the module global: "None" or the resolved path
    installed,      \* the paths at which an executable file exists
    environ,        \* the value of the MEGAM environment variable, or "None"
    last            \* the most recent config_megam / call_megam call

write_vars == <<train_toks, encoding, bernoulli, explicit, stream, blocks, w_raised, w_pc>>
parse_vars == <<s, features_count, p_explicit, numpy, returned, p_raised, p_pc>>
megam_vars == <<_megam_bin, installed, environ, last>>
vars == <<write_vars, parse_vars, megam_vars>>

\* ------------------------------------------------------------------------
\* Bounds and input sets
\* ------------------------------------------------------------------------

\* the longest train_toks
MaxToks == 2
\* the longest feature vector an encoding returns
MaxVecLen == 2

SeqsUpTo(S, n) == UNION {[1..k -> S] : k \in 0..n}

\* the classification labels that occur
Labels == {"a", "b"}
\* the one featureset of the training pairs
Featuresets == {"fs"}
\* the (fid, fval) pairs an encoding may return: a firing binary feature, a
\* binary feature that does not fire, and a feature with a non-binary value
FeaturePairs == {<<0, 1>>, <<1, 0>>, <<2, 2>>}
Vectors == SeqsUpTo(FeaturePairs, MaxVecLen)
\* encoding.labels(): the labels, each once, in some order
LabelOrders ==
    {q \in SeqsUpTo(Labels, Cardinality(Labels)) :
        \A i, j \in DOMAIN q : i # j => q[i] # q[j]}
\* the cost() of an encoding that has one: cost[true label, candidate label]
ExampleCost ==
    [p \in Labels \X Labels |->
        IF p[1] = p[2] THEN 0 ELSE IF p[2] = "a" THEN 1 ELSE 2]

\* ------------------------------------------------------------------------
\* write_megam_file
\* ------------------------------------------------------------------------

\* WriteFeatureLoop without the check that a value other than 1 is 0
RECURSIVE WriteFeatureLoop_lenient(_, _, _, _)
WriteFeatureLoop_lenient(vector, k, strm, bern) ==
    IF k > Len(vector)
    THEN [stream |-> strm, raised |-> "none"]
    ELSE LET fid == vector[k][1]
             fval == vector[k][2]
         IN  IF bern
             THEN IF fval = 1
                  THEN WriteFeatureLoop_lenient(vector, k + 1,
                           Append(strm, " " \o ToString(fid)), bern)
                  ELSE WriteFeatureLoop_lenient(vector, k + 1, strm, bern)
             ELSE WriteFeatureLoop_lenient(vector, k + 1,
                      Append(strm, " " \o ToString(fid) \o " " \o ToString(fval)),
                      bern)

\* for (fid, fval) in vector: ...   (the loop of _write_megam_features)
RECURSIVE WriteFeatureLoop(_, _, _, _)
WriteFeatureLoop(vector, k, strm, bern) ==
    IF k > Len(vector)
    THEN [stream |-> strm, raised |-> "none"]
    ELSE LET fid == vector[k][1]
             fval == vector[k][2]
         IN  IF bern
             THEN IF fval = 1
                  THEN WriteFeatureLoop(vector, k + 1,
                           Append(strm, " " \o ToString(fid)), bern)
                  ELSE IF fval # 0
                  THEN [stream |-> strm, raised |-> "ValueError:binary"]
                  ELSE WriteFeatureLoop(vector, k + 1, strm, bern)
             ELSE WriteFeatureLoop(vector, k + 1,
                      Append(strm, " " \o ToString(fid) \o " " \o ToString(fval)),
                      bern)

\* _write_megam_features without the check for an empty vector
_write_megam_features_unchecked(vector, strm, bern) ==
    WriteFeatureLoop(vector, 1, strm, bern)

_write_megam_features(vector, strm, bern) ==
    IF vector = <<>>
    THEN [stream |-> strm, raised |-> "ValueError:always-on"]
    ELSE WriteFeatureLoop(vector, 1, strm, bern)

\* labelnum with the labels numbered from 1
labelnum_from_one(labels) ==
    [l \in {labels[i] : i \in DOMAIN labels} |->
        CHOOSE i \in DOMAIN labels :
            /\ labels[i] = l
            /\ \A j \in DOMAIN labels : labels[j] = l => j <= i]

\* labelnum = dict([(label, i) for (i, label) in enumerate(labels)]):
\* a later entry of the same label replaces an earlier one
labelnum(labels) ==
    [l \in {labels[i] : i \in DOMAIN labels} |->
        (CHOOSE i \in DOMAIN labels :
            /\ labels[i] = l
            /\ \A j \in DOMAIN labels : labels[j] = l => j <= i) - 1]

\* ':'.join(str(encoding.cost(featureset, label, l)) for l in labels)
RECURSIVE JoinCosts(_, _, _)
JoinCosts(enc, label, j) ==
    IF j > Len(enc.labels)
    THEN ""
    ELSE ToString(enc.cost[<<label, enc.labels[j]>>])
         \o (IF j < Len(enc.labels) THEN ":" ELSE "")
         \o JoinCosts(enc, label, j + 1)

\* the first write of an instance: the costs of the labels when the encoding
\* has a cost attribute, the number of the true label otherwise
WriteLabel(enc, label, out) ==
    IF enc.has_cost
    THEN [out EXCEPT !.stream = Append(@, JoinCosts(enc, label, 1))]
    ELSE IF label \in DOMAIN labelnum(enc.labels)
    THEN [out EXCEPT !.stream = Append(@, ToString(labelnum(enc.labels)[label]))]
    ELSE [out EXCEPT !.raised = "KeyError"]

\* one call of _write_megam_features(encoding.encode(featureset, l), stream,
\* bernoulli) made for pair i
WriteBlock(enc, i, featureset, l, bern, out) ==
    LET r == _write_megam_features(enc.encode[<<featureset, l>>], out.stream, bern)
    IN  [stream |-> r.stream,
         raised |-> r.raised,
         blocks |-> Append(out.blocks,
                        [pair |-> i, label |-> l, at |-> Len(out.stream)])]

\* for l in labels: stream.write(' #'); _write_megam_features(...)
RECURSIVE WriteExplicit(_, _, _, _, _, _)
WriteExplicit(enc, i, featureset, j, bern, out) ==
    IF j > Len(enc.labels) \/ out.raised # "none"
    THEN out
    ELSE WriteExplicit(enc, i, featureset, j + 1, bern,
             WriteBlock(enc, i, featureset, enc.labels[j], bern,
                 [out EXCEPT !.stream = Append(@, " #")]))

\* WriteInstance taking the implicit branch whatever explicit is
WriteInstance_implicit(toks, enc, i, bern, expl, out) ==
    LET featureset == toks[i][1]
        label == toks[i][2]
        o1 == WriteLabel(enc, label, out)
        o2 == IF o1.raised # "none"
              THEN o1
              ELSE WriteBlock(enc, i, featureset, label, bern, o1)
    IN  IF o2.raised # "none"
        THEN o2
        ELSE [o2 EXCEPT !.stream = Append(@, "\n")]

\* WriteInstance ending the line also when a feature block raised
WriteInstance_ends_line(toks, enc, i, bern, expl, out) ==
    LET featureset == toks[i][1]
        label == toks[i][2]
        o1 == WriteLabel(enc, label, out)
        o2 == IF o1.raised # "none"
              THEN o1
              ELSE IF ~expl
              THEN WriteBlock(enc, i, featureset, label, bern, o1)
              ELSE WriteExplicit(enc, i, featureset, 1, bern, o1)
    IN  IF o2.raised = "KeyError"
        THEN o2
        ELSE [o2 EXCEPT !.stream = Append(@, "\n")]

\* the body of the loop over train_toks, for pair i
WriteInstance(toks, enc, i, bern, expl, out) ==
    LET featureset == toks[i][1]
        label == toks[i][2]
        o1 == WriteLabel(enc, label, out)
        o2 == IF o1.raised # "none"
              THEN o1
              ELSE IF ~expl
              THEN WriteBlock(enc, i, featureset, label, bern, o1)
              ELSE WriteExplicit(enc, i, featureset, 1, bern, o1)
    IN  IF o2.raised # "none"
        THEN o2
        ELSE [o2 EXCEPT !.stream = Append(@, "\n")]

\* for featureset, label in train_toks: ...
RECURSIVE WriteLoop(_, _, _, _, _, _)
WriteLoop(toks, enc, i, bern, expl, out) ==
    IF i > Len(toks) \/ out.raised # "none"
    THEN out
    ELSE WriteLoop(toks, enc, i + 1, bern, expl,
             WriteInstance(toks, enc, i, bern, expl, out))

\* write_megam_file(train_toks, encoding, stream, bernoulli, explicit), on an
\* empty stream; bin_stream only wraps the stream and is left out
write_megam_file(toks, enc, bern, expl) ==
    WriteLoop(toks, enc, 1, bern, expl,
        [stream |-> <<>>, raised |-> "none", blocks |-> <<>>])

WriteIdle ==
    /\ train_toks = <<>>
    /\ encoding = [labels |-> <<>>, has_cost |-> FALSE, cost |-> ExampleCost,
                   encode |-> [p \in Featuresets \X Labels |-> <<>>]]
    /\ bernoulli = TRUE
    /\ explicit = TRUE
    /\ stream = <<>>
    /\ blocks = <<>>
    /\ w_raised = "none"
    /\ w_pc = "idle"

\* the arguments of one call of write_megam_file, and an empty stream
InitWrite ==
    /\ train_toks \in SeqsUpTo(Featuresets \X Labels, MaxToks)
    /\ \E labels \in LabelOrders, has_cost \in BOOLEAN,
          encode \in [Featuresets \X Labels -> Vectors] :
            encoding = [labels |-> labels, has_cost |-> has_cost,
                        cost |-> ExampleCost, encode |-> encode]
    /\ bernoulli \in BOOLEAN
    /\ explicit \in BOOLEAN
    /\ stream = <<>>
    /\ blocks = <<>>
    /\ w_raised = "none"
    /\ w_pc = "start"

WriteMegamFile ==
    /\ w_pc = "start"
    /\ LET r == write_megam_file(train_toks, encoding, bernoulli, explicit)
       IN  /\ stream' = r.stream
           /\ blocks' = r.blocks
           /\ w_raised' = r.raised
    /\ w_pc' = "done"
    /\ UNCHANGED <<train_toks, encoding, bernoulli, explicit>>
    /\ UNCHANGED <<parse_vars, megam_vars>>

\* ------------------------------------------------------------------------
\* parse_megam_weights
\* ------------------------------------------------------------------------

\* the longest stdout, in tokens and newlines
MaxLen == 5
\* the largest features_count
MaxFeatures == 5

NL == "\n"
\* what megam's stdout is made of: integer literals, a float literal, a token
\* that is no number, and the newline
Symbols == {"3", "-1", "0.5", "x", NL}

\* int(tok): the literals int() accepts, with their values
IntLiteral == ("3" :> 3) @@ ("-1" :> -1)
\* float(tok): the literals float() accepts, with their values in tenths
FloatLiteral == ("3" :> 30) @@ ("-1" :> -10) @@ ("0.5" :> 5)

\* str.strip(): leading and trailing whitespace, newlines included, is dropped
RECURSIVE LStrip(_)
LStrip(q) ==
    IF q # <<>> /\ Head(q) = NL THEN LStrip(Tail(q)) ELSE q
RECURSIVE RStrip(_)
RStrip(q) ==
    IF q # <<>> /\ q[Len(q)] = NL THEN RStrip(SubSeq(q, 1, Len(q) - 1)) ELSE q
Strip(q) == RStrip(LStrip(q))

\* str.split('\n'): the pieces between the newlines, at least one piece; each
\* piece is the list of the tokens of that line, which is line.split()
RECURSIVE SplitLines(_, _)
SplitLines(q, line) ==
    IF q = <<>>
    THEN <<line>>
    ELSE IF Head(q) = NL
    THEN <<line>> \o SplitLines(Tail(q), <<>>)
    ELSE SplitLines(Tail(q), Append(line, Head(q)))

\* numpy.zeros(features_count, 'd'), indexed from 0
Zeros(n) == [k \in 0..(n - 1) |-> 0]

\* ParseLine keeping the weight a position already has
ParseLine_keeps_first(toks, w, n) ==
    IF Len(toks) # 2
    THEN [raised |-> "ValueError", weights |-> w]
    ELSE LET fid == toks[1]
             weight == toks[2]
         IN  IF weight \notin DOMAIN FloatLiteral \/ fid \notin DOMAIN IntLiteral
             THEN [raised |-> "ValueError", weights |-> w]
             ELSE LET i == IntLiteral[fid]
                      at == IF i >= 0 THEN i ELSE n + i
                  IN  IF i >= n \/ i < -n
                      THEN [raised |-> "IndexError", weights |-> w]
                      ELSE IF w[at] # 0
                      THEN [raised |-> "none", weights |-> w]
                      ELSE [raised |-> "none",
                            weights |-> [w EXCEPT ![at] = FloatLiteral[weight]]]

\* weights[int(fid)] = float(weight) for one line that is not blank
ParseLine(toks, w, n) ==
    IF Len(toks) # 2
    THEN [raised |-> "ValueError", weights |-> w]
    ELSE LET fid == toks[1]
             weight == toks[2]
         IN  IF weight \notin DOMAIN FloatLiteral \/ fid \notin DOMAIN IntLiteral
             THEN [raised |-> "ValueError", weights |-> w]
             ELSE LET i == IntLiteral[fid]
                  IN  \* a numpy index counts from the end when it is negative
                      IF i >= 0 /\ i < n
                      THEN [raised |-> "none",
                            weights |-> [w EXCEPT ![i] = FloatLiteral[weight]]]
                      ELSE IF i < 0 /\ i >= -n
                      THEN [raised |-> "none",
                            weights |-> [w EXCEPT ![n + i] = FloatLiteral[weight]]]
                      ELSE [raised |-> "IndexError", weights |-> w]

\* for line in lines: if line.strip(): ...
RECURSIVE ParseLoop(_, _, _, _)
ParseLoop(lines, k, w, n) ==
    IF k > Len(lines)
    THEN [raised |-> "none", weights |-> w]
    ELSE IF lines[k] = <<>>
    THEN ParseLoop(lines, k + 1, w, n)
    ELSE LET r == ParseLine(lines[k], w, n)
         IN  IF r.raised # "none"
             THEN r
             ELSE ParseLoop(lines, k + 1, r.weights, n)

\* parse_megam_weights(s, features_count, explicit): the exception raised
\* and what is returned
parse_megam_weights(str, n, expl, np) ==
    IF np = "None"
    THEN [raised |-> "ValueError", returned |-> <<>>]
    ELSE IF ~expl
    THEN [raised |-> "AssertionError", returned |-> <<>>]
    ELSE LET r == ParseLoop(SplitLines(Strip(str), <<>>), 1, Zeros(n), n)
         IN  IF r.raised # "none"
             THEN [raised |-> r.raised, returned |-> <<>>]
             ELSE [raised |-> "none", returned |-> <<r.weights>>]

ParseIdle ==
    /\ s = <<>>
    /\ features_count = 0
    /\ p_explicit = TRUE
    /\ numpy = "numpy"
    /\ returned = <<>>
    /\ p_raised = "none"
    /\ p_pc = "idle"

\* the arguments of one call of parse_megam_weights
InitParse ==
    /\ s \in SeqsUpTo(Symbols, MaxLen)
    /\ features_count \in 0..MaxFeatures
    /\ p_explicit \in BOOLEAN
    /\ numpy \in {"numpy", "None"}
    /\ returned = <<>>
    /\ p_raised = "none"
    /\ p_pc = "start"

ParseMegamWeights ==
    /\ p_pc = "start"
    /\ LET r == parse_megam_weights(s, features_count, p_explicit, numpy)
       IN  /\ returned' = r.returned
           /\ p_raised' = r.raised
    /\ p_pc' = "done"
    /\ UNCHANGED <<s, features_count, p_explicit, numpy>>
    /\ UNCHANGED <<write_vars, megam_vars>>

\* ------------------------------------------------------------------------
\* config_megam and call_megam
\* ------------------------------------------------------------------------

\* the paths a caller may pass to config_megam
Paths == {"/opt/megam", "/usr/bin/megam", "/nonexistent"}
\* the paths at which a megam binary may be installed
Installable == {"/opt/megam", "/usr/bin/megam"}
\* the paths the search of the environment variables and of PATH looks at
OnSearchPath == {"/usr/bin/megam"}
\* what the child process may do: its exit code and what it prints
Children ==
    {[returncode |-> 0, stdout |-> "3 0.5\n"],
     [returncode |-> 0, stdout |-> ""],
     [returncode |-> 1, stdout |-> ""]}
\* call_megam's argument: a list of strings, or a single string
Args ==
    {[type |-> "list", val |-> <<>>],
     [type |-> "list", val |-> <<"-fvals", "multiclass", "train.txt">>],
     [type |-> "str", val |-> <<"-fvals multiclass train.txt">>]}

\* nltk.internals.find_binary('megam', bin, env_vars=..., binary_names=...):
\* the explicit path when one is given, otherwise the path an environment
\* variable names, otherwise a binary on PATH; LookupError when the explicit
\* path does not exist or the search finds nothing
find_binary(bin, inst, env) ==
    IF bin # "None"
    THEN IF bin \in inst
         THEN [raised |-> "none", path |-> bin]
         ELSE [raised |-> "LookupError", path |-> "None"]
    ELSE IF env \in inst
    THEN [raised |-> "none", path |-> env]
    ELSE IF OnSearchPath \cap inst # {}
    THEN [raised |-> "none", path |-> CHOOSE p \in OnSearchPath \cap inst : TRUE]
    ELSE [raised |-> "LookupError", path |-> "None"]

\* config_megam(bin): _megam_bin = find_binary(...); the global keeps its
\* value when find_binary raises
config_megam(bin, cur, inst, env) ==
    LET r == find_binary(bin, inst, env)
    IN  [raised |-> r.raised,
         bin |-> IF r.raised = "none" THEN r.path ELSE cur,
         located |-> IF bin = "None" THEN "default" ELSE "explicit"]

\* call_megam calling config_megam() whether or not _megam_bin is set
call_megam_reconfigures(args, child, cur, inst, env) ==
    IF args.type = "str"
    THEN [raised |-> "TypeError", result |-> "None", bin |-> cur,
          located |-> "none", cmd |-> <<>>]
    ELSE LET c == config_megam("None", cur, inst, env)
         IN  IF c.raised # "none"
             THEN [raised |-> c.raised, result |-> "None", bin |-> c.bin,
                   located |-> c.located, cmd |-> <<>>]
             ELSE IF child.returncode # 0
             THEN [raised |-> "OSError", result |-> "None", bin |-> c.bin,
                   located |-> c.located, cmd |-> <<c.bin>> \o args.val]
             ELSE [raised |-> "none", result |-> child.stdout, bin |-> c.bin,
                   located |-> c.located, cmd |-> <<c.bin>> \o args.val]

\* call_megam checking the type of args after resolving the binary
call_megam_resolves_first(args, child, cur, inst, env) ==
    LET c == IF cur = "None"
             THEN config_megam("None", cur, inst, env)
             ELSE [raised |-> "none", bin |-> cur, located |-> "none"]
    IN  IF c.raised # "none"
        THEN [raised |-> c.raised, result |-> "None", bin |-> c.bin,
              located |-> c.located, cmd |-> <<>>]
        ELSE IF args.type = "str"
        THEN [raised |-> "TypeError", result |-> "None", bin |-> c.bin,
              located |-> c.located, cmd |-> <<>>]
        ELSE IF child.returncode # 0
        THEN [raised |-> "OSError", result |-> "None", bin |-> c.bin,
              located |-> c.located, cmd |-> <<c.bin>> \o args.val]
        ELSE [raised |-> "none", result |-> child.stdout, bin |-> c.bin,
              located |-> c.located, cmd |-> <<c.bin>> \o args.val]

\* call_megam(args), with what the child does when it is run: the exception
\* raised, the value returned, the value of _megam_bin afterwards, the
\* find_binary call made (if any) and the command spawned (if any)
call_megam(args, child, cur, inst, env) ==
    IF args.type = "str"
    THEN [raised |-> "TypeError", result |-> "None", bin |-> cur,
          located |-> "none", cmd |-> <<>>]
    ELSE LET c == IF cur = "None"
                  THEN config_megam("None", cur, inst, env)
                  ELSE [raised |-> "none", bin |-> cur, located |-> "none"]
         IN  IF c.raised # "none"
             THEN [raised |-> c.raised, result |-> "None", bin |-> c.bin,
                   located |-> c.located, cmd |-> <<>>]
             ELSE IF child.returncode # 0
             THEN [raised |-> "OSError", result |-> "None", bin |-> c.bin,
                   located |-> c.located, cmd |-> <<c.bin>> \o args.val]
             ELSE [raised |-> "none", result |-> child.stdout, bin |-> c.bin,
                   located |-> c.located, cmd |-> <<c.bin>> \o args.val]

NoCall ==
    [op |-> "none", bin |-> "None", args |-> "none", located |-> "none",
     cmd |-> <<>>, raised |-> "none", result |-> "None"]

MegamIdle ==
    /\ _megam_bin = "None"
    /\ installed = {}
    /\ environ = "None"
    /\ last = NoCall

\* the module just imported, on a machine with some binaries installed
InitMegam ==
    /\ _megam_bin = "None"
    /\ installed \in SUBSET Installable
    /\ environ \in Paths \cup {"None"}
    /\ last = NoCall

ConfigMegam(bin) ==
    /\ LET r == config_megam(bin, _megam_bin, installed, environ)
       IN  /\ _megam_bin' = r.bin
           /\ last' = [op |-> "config_megam", bin |-> bin, args |-> "none",
                       located |-> r.located, cmd |-> <<>>,
                       raised |-> r.raised, result |-> "None"]
    /\ UNCHANGED <<installed, environ>>
    /\ UNCHANGED <<write_vars, parse_vars>>

CallMegam(args, child) ==
    /\ LET r == call_megam(args, child, _megam_bin, installed, environ)
       IN  /\ _megam_bin' = r.bin
           /\ last' = [op |-> "call_megam", bin |-> "None", args |-> args.type,
                       located |-> r.located, cmd |-> r.cmd,
                       raised |-> r.raised, result |-> r.result]
    /\ UNCHANGED <<installed, environ>>
    /\ UNCHANGED <<write_vars, parse_vars>>

\* ------------------------------------------------------------------------
\* Specifications
\* ------------------------------------------------------------------------

\* one call of write_megam_file
InitW == InitWrite /\ ParseIdle /\ MegamIdle

SpecWrite == InitW /\ [][WriteMegamFile]_vars

\* one call of parse_megam_weights
InitP == WriteIdle /\ InitParse /\ MegamIdle

SpecParse == InitP /\ [][ParseMegamWeights]_vars

\* one call of write_megam_file or of parse_megam_weights
InitIO == InitW \/ InitP

NextIO ==
    \/ WriteMegamFile
    \/ ParseMegamWeights

SpecIO == InitIO /\ [][NextIO]_vars

\* any sequence of config_megam and call_megam calls
InitM == WriteIdle /\ ParseIdle /\ InitMegam

NextMegam ==
    \/ \E bin \in Paths \cup {"None"} : ConfigMegam(bin)
    \/ \E args \in Args, child \in Children : CallMegam(args, child)

SpecMegam == InitM /\ [][NextMegam]_vars

\* ------------------------------------------------------------------------
\* Properties of write_megam_file
\* ------------------------------------------------------------------------

FormattingErrors == {"ValueError:always-on", "ValueError:binary"}

\* the positions of the line ends in the stream, and the number of lines ended
NewlineAt == {k \in DOMAIN stream : stream[k] = "\n"}
Completed == Cardinality(NewlineAt)
NthNewline(i) ==
    CHOOSE k \in NewlineAt : Cardinality({m \in NewlineAt : m <= k}) = i
\* where the i-th line starts and ends; the last line may be unterminated
LineStart(i) == IF i = 1 THEN 1 ELSE NthNewline(i - 1) + 1
LineEnd(i) == IF i <= Completed THEN NthNewline(i) ELSE Len(stream)
SeparatorsIn(i) == {k \in LineStart(i)..LineEnd(i) : stream[k] = " #"}
\* the feature blocks written for pair i, in order
BlocksOf(i) == SelectSeq(blocks, LAMBDA b : b.pair = i)
TrueLabel(i) == train_toks[i][2]

\* C1: when explicit is true, every line written holds exactly one feature
\* block per label of the encoding, in the encoding's label order, each right
\* after a ' #'; when explicit is false it holds exactly one block, that of
\* the pair's true label, and no ' #'.
C1_BlocksPerPair ==
    w_pc = "done" =>
        \A i \in 1..Completed :
            LET bs == BlocksOf(i)
            IN  IF explicit
                THEN /\ [j \in 1..Len(bs) |-> bs[j].label] = encoding.labels
                     /\ \A j \in 1..Len(bs) : stream[bs[j].at] = " #"
                     /\ Cardinality(SeparatorsIn(i)) = Len(encoding.labels)
                ELSE /\ [j \in 1..Len(bs) |-> bs[j].label] = <<TrueLabel(i)>>
                     /\ SeparatorsIn(i) = {}

C1_Witness ==
    /\ w_pc = "done"
    /\ w_raised = "none"
    /\ explicit
    /\ Len(train_toks) = 2
    /\ Len(encoding.labels) = 2
    /\ Len(blocks) = 4

\* the labels whose vectors the call encodes for pair i: all of them when
\* explicit, the true label otherwise
EncodedLabels(i) ==
    IF explicit
    THEN {encoding.labels[j] : j \in DOMAIN encoding.labels}
    ELSE {TrueLabel(i)}
EncodedVectors ==
    UNION {{encoding.encode[<<train_toks[i][1], l>>] : l \in EncodedLabels(i)} :
              i \in DOMAIN train_toks}
IsBinary(v) == \A k \in DOMAIN v : v[k][2] \in {0, 1}
\* the firing features of a vector, as bernoulli mode writes them
FiringTokens(v) ==
    LET on == SelectSeq(v, LAMBDA fv : fv[2] = 1)
    IN  [k \in 1..Len(on) |-> " " \o ToString(on[k][1])]

\* C2: in bernoulli mode the call never raises the binary-value error when
\* every value of every vector it encodes is 0 or 1, and then each block holds
\* the ids of the features of value 1 and nothing for those of value 0; the
\* call always raises when some encoded value is neither 0 nor 1.
C2_BernoulliBinary ==
    (w_pc = "done" /\ bernoulli) =>
        /\ (\A v \in EncodedVectors : IsBinary(v)) =>
              /\ w_raised # "ValueError:binary"
              /\ w_raised = "none" =>
                    \A n \in DOMAIN blocks :
                        LET b == blocks[n]
                            v == encoding.encode[<<train_toks[b.pair][1], b.label>>]
                            f == FiringTokens(v)
                        IN  /\ SubSeq(stream, b.at + 1, b.at + Len(f)) = f
                            /\ stream[b.at + Len(f) + 1] \in {" #", "\n"}
        /\ (\E v \in EncodedVectors : ~IsBinary(v)) => w_raised # "none"

C2_Witness ==
    /\ w_pc = "done"
    /\ bernoulli
    /\ w_raised = "none"
    /\ \E n \in DOMAIN blocks :
          encoding.encode[<<train_toks[blocks[n].pair][1], blocks[n].label>>]
              = <<<<1, 0>>, <<0, 1>>>>

\* C3 as stated, for training labels the encoding knows: the call raises a
\* formatting error whenever the encoding gives an empty vector for any label
\* of any training pair, whatever bernoulli and explicit are.
C3_Original ==
    (/\ w_pc = "done"
     /\ \A i \in DOMAIN train_toks :
            \E j \in DOMAIN encoding.labels : encoding.labels[j] = TrueLabel(i)
     /\ \E i \in DOMAIN train_toks, j \in DOMAIN encoding.labels :
            encoding.encode[<<train_toks[i][1], encoding.labels[j]>>] = <<>>)
    => w_raised \in FormattingErrors

\* C3, amended: the call raises whenever the encoding gives an empty vector
\* for a label whose block the call writes (every label when explicit, only
\* the pair's true label otherwise), whatever bernoulli is; the error is a
\* formatting error unless the encoding has no cost and some true label is
\* not among its labels, whose lookup may raise KeyError first.
C3_EmptyVectorRaises ==
    (w_pc = "done" /\ <<>> \in EncodedVectors) =>
        /\ w_raised # "none"
        /\ w_raised \notin FormattingErrors =>
              /\ w_raised = "KeyError"
              /\ ~encoding.has_cost
              /\ \E i \in DOMAIN train_toks :
                    \A j \in DOMAIN encoding.labels :
                        encoding.labels[j] # TrueLabel(i)

C3_Witness ==
    /\ w_pc = "done"
    /\ ~explicit
    /\ ~bernoulli
    /\ Len(train_toks) = 2
    /\ encoding.encode[<<train_toks[1][1], TrueLabel(1)>>] # <<>>
    /\ encoding.encode[<<train_toks[2][1], TrueLabel(2)>>] = <<>>
    /\ w_raised = "ValueError:always-on"

\* ':'.join of a list of strings
RECURSIVE ColonJoin(_)
ColonJoin(q) ==
    IF q = <<>> THEN ""
    ELSE IF Len(q) = 1 THEN q[1]
    ELSE q[1] \o ":" \o ColonJoin(Tail(q))
\* the costs of the labels, in the encoding's order, for pair i
CostsOf(i) ==
    [j \in 1..Len(encoding.labels) |->
        ToString(encoding.cost[<<TrueLabel(i), encoding.labels[j]>>])]
\* the position, from 0, of a label in the encoding's label order
IndexOf(l) == (CHOOSE j \in DOMAIN encoding.labels : encoding.labels[j] = l) - 1

\* C9: line i is the line of pair i, and it starts with the colon-separated
\* costs of every label in the encoding's order when the encoding has a cost
\* function, and with the index of the pair's true label in the encoding's
\* label order when it has none.
C9_LinePrefix ==
    w_pc = "done" =>
        /\ Completed <= Len(train_toks)
        /\ w_raised = "none" => Completed = Len(train_toks)
        /\ \A i \in 1..(Completed + 1) :
              LineStart(i) <= Len(stream) =>
                  /\ i <= Len(train_toks)
                  /\ stream[LineStart(i)] =
                        IF encoding.has_cost
                        THEN ColonJoin(CostsOf(i))
                        ELSE ToString(IndexOf(TrueLabel(i)))

C9_Witness ==
    /\ w_pc = "done"
    /\ w_raised = "none"
    /\ Len(train_toks) = 2
    /\ TrueLabel(1) # TrueLabel(2)
    /\ Len(encoding.labels) = 2
    /\ ~encoding.has_cost
    /\ stream[LineStart(2)] = "1"

\* C10 as stated: a call that fails leaves no partial result; after a
\* formatting failure of write_megam_file the stream holds nothing of the call,
\* and a failing parse_megam_weights returns no vector.
C10_Original ==
    /\ (w_pc = "done" /\ w_raised \in FormattingErrors) => stream = <<>>
    /\ (p_pc = "done" /\ p_raised # "none") => returned = <<>>

\* C10, amended: a failure ends the call at once, and what was written stays
\* written.  After a formatting failure on pair n+1 the stream holds the
\* complete lines of the pairs 1..n, exactly as a call on those pairs alone
\* writes them, followed by an unterminated fragment of the line of pair n+1
\* that holds at least its label prefix, and nothing of a later pair; a
\* failing parse_megam_weights returns no vector.
C10_FailureKeepsPrefix ==
    /\ (w_pc = "done" /\ w_raised \in FormattingErrors) =>
          LET n == Completed
          IN  /\ n < Len(train_toks)
              /\ LineStart(n + 1) <= Len(stream)
              /\ stream[Len(stream)] # "\n"
              /\ \A k \in DOMAIN blocks : blocks[k].pair <= n + 1
              /\ blocks[Len(blocks)].pair = n + 1
              /\ SubSeq(stream, 1, LineStart(n + 1) - 1) =
                    write_megam_file(SubSeq(train_toks, 1, n), encoding,
                                     bernoulli, explicit).stream
    /\ (p_pc = "done" /\ p_raised # "none") => returned = <<>>

C10_Witness ==
    /\ w_pc = "done"
    /\ w_raised \in FormattingErrors
    /\ Completed = 1
    /\ Len(stream) > LineStart(2)

\* ------------------------------------------------------------------------
\* Properties of parse_megam_weights
\* ------------------------------------------------------------------------

\* the lines of the output
OutputLines == SplitLines(Strip(s), <<>>)
\* the lines that name position k
Naming(k) ==
    {m \in DOMAIN OutputLines :
        /\ OutputLines[m] # <<>>
        /\ OutputLines[m][1] \in DOMAIN IntLiteral
        /\ IntLiteral[OutputLines[m][1]] = k}
\* every line that is not blank is a feature-id in range and a weight
WellFormed ==
    \A m \in DOMAIN OutputLines :
        \/ OutputLines[m] = <<>>
        \/ /\ Len(OutputLines[m]) = 2
           /\ OutputLines[m][1] \in DOMAIN IntLiteral
           /\ IntLiteral[OutputLines[m][1]] \in 0..(features_count - 1)
           /\ OutputLines[m][2] \in DOMAIN FloatLiteral
Last(S) == CHOOSE m \in S : \A n \in S : n <= m

\* C4 as stated: the call fails, returning no vector, whenever a line that is
\* not blank names a feature-id outside 0 <= id < features_count, negative
\* feature-ids included.
C4_Original ==
    (/\ p_pc = "done"
     /\ numpy = "numpy"
     /\ p_explicit
     /\ \E m \in DOMAIN OutputLines :
            /\ OutputLines[m] # <<>>
            /\ OutputLines[m][1] \in DOMAIN IntLiteral
            /\ IntLiteral[OutputLines[m][1]] \notin 0..(features_count - 1))
    => (p_raised # "none" /\ returned = <<>>)

\* C5: for well-formed output with every feature-id in range the call returns
\* a vector of length features_count in which a position some line names holds
\* the weight of the last line naming it and every other position holds 0;
\* blank lines are ignored, so empty output gives the all-zero vector, and the
\* one line '3 0.5' with features_count = 5 gives 0.5 at index 3 and 0
\* elsewhere.  (Weights are in tenths.)
C5_ParsedWeights ==
    (p_pc = "done" /\ numpy = "numpy" /\ p_explicit /\ WellFormed) =>
        /\ p_raised = "none"
        /\ Len(returned) = 1
        /\ DOMAIN returned[1] = 0..(features_count - 1)
        /\ \A k \in 0..(features_count - 1) :
              returned[1][k] =
                  IF Naming(k) = {}
                  THEN 0
                  ELSE FloatLiteral[OutputLines[Last(Naming(k))][2]]
        /\ s = <<>> => \A k \in 0..(features_count - 1) : returned[1][k] = 0
        /\ (s = <<"3", "0.5">> /\ features_count = 5) =>
              returned[1] = (0 :> 0) @@ (1 :> 0) @@ (2 :> 0) @@ (3 :> 5) @@ (4 :> 0)

C5_Witness ==
    /\ p_pc = "done"
    /\ p_raised = "none"
    /\ s = <<"3", "0.5", NL, "3", "-1">>
    /\ features_count = 5
    /\ returned = <<(0 :> 0) @@ (1 :> 0) @@ (2 :> 0) @@ (3 :> -10) @@ (4 :> 0)>>

\* ------------------------------------------------------------------------
\* Properties of config_megam and call_megam
\* ------------------------------------------------------------------------

\* C6 as stated: when config_megam with an explicit path has just failed with
\* a lookup error, the call_megam that follows raises a lookup error and runs
\* no binary.
C6_Original ==
    [][(/\ last.op = "config_megam"
        /\ last.bin # "None"
        /\ last.raised = "LookupError"
        /\ last'.op = "call_megam"
        /\ last'.args = "list")
       => (last'.raised = "LookupError" /\ last'.cmd = <<>>)]_vars

\* C7: call_megam runs the locator, with the defaults, exactly when the
\* resolved path is unset; once the path is set no call_megam changes it; and
\* after a config_megam that succeeds the path is the one that call resolved.
C7_PathFixedUntilConfig ==
    [][/\ last'.op = "call_megam" =>
            /\ last'.located \in {"none", "default"}
            /\ last'.located = "default" <=>
                    (_megam_bin = "None" /\ last'.args = "list")
            /\ _megam_bin # "None" => _megam_bin' = _megam_bin
            /\ last'.cmd # <<>> => last'.cmd[1] = _megam_bin'
       /\ (last'.op = "config_megam" /\ last'.raised = "none") =>
            _megam_bin' = find_binary(last'.bin, installed, environ).path
       /\ (last'.op = "config_megam" /\ last'.raised # "none") =>
            _megam_bin' = _megam_bin]_vars

C7_Witness ==
    /\ last.op = "call_megam"
    /\ last.located = "none"
    /\ last.raised = "none"
    /\ environ = "None"
    /\ installed = Installable
    /\ _megam_bin = "/opt/megam"
    /\ last.cmd[1] = "/opt/megam"

\* C8: call_megam given a single string raises TypeError before any
\* resolution: the locator is not run, the resolved path keeps its value and
\* no child process is spawned, whether or not the path was set.
C8_StringArgsRejected ==
    [][(last'.op = "call_megam" /\ last'.args = "str") =>
            /\ last'.raised = "TypeError"
            /\ last'.located = "none"
            /\ last'.cmd = <<>>
            /\ _megam_bin' = _megam_bin]_vars

C8_Witness ==
    /\ last.op = "call_megam"
    /\ last.args = "str"
    /\ last.raised = "TypeError"
    /\ _megam_bin = "None"
    /\ "/usr/bin/megam" \in installed

====
